---- MODULE Spec2Model ----
(***************************************************************************)
(* Conway's Game of Life on a tessellated tile (package pattern) and the   *)
(* double-buffered driving loop `play` of tessellation.go.                 *)
(*                                                                         *)
(* Coordinates are 0-based (row, col) pairs as in the Go code.  A grid     *)
(* ([][]bool) is a function from Pos to BOOLEAN.  Pattern.Cells is a       *)
(* function over 0..N (index 0 is the zero-valued Cell the slice is made   *)
(* with), Pattern.Border a function whose DOMAIN is the set of keys the Go *)
(* map holds, each key mapped to the sequence of appended Cells.           *)
(***************************************************************************)
EXTENDS Integers, Sequences, FiniteSets, TLC

\* ------------------------------------------------------------------ bounds
Rows == 2
Cols == 3
MaxRules == 2
MaxShift == 1
MaxTile == 3
NFrames == 4

alive == TRUE
dead == FALSE

Pos == (0 .. Rows - 1) \X (0 .. Cols - 1)
Grids == [Pos -> BOOLEAN]
EmptyGrid == [p \in Pos |-> FALSE]

Cell(r, c) == [Row |-> r, Col |-> c]
At(g, c) == g[<<c.Row, c.Col>>]

\* ------------------------------------------------------- pattern.go helpers

\* countNeighbors: the nested r/c loops, visited in the code's order.
NeighborOffsets == <<  <<-1, -1>>, <<-1, 0>>, <<-1, 1>>,
                       <<0, -1>>,  <<0, 0>>,  <<0, 1>>,
                       <<1, -1>>,  <<1, 0>>,  <<1, 1>> >>

RECURSIVE countLoop(_, _, _, _)
countLoop(tile, row, col, k) ==
    IF k > Len(NeighborOffsets) THEN 0
    ELSE LET r == row + NeighborOffsets[k][1]
             c == col + NeighborOffsets[k][2]
             rest == countLoop(tile, row, col, k + 1)
         IN  IF r = row /\ c = col THEN rest
             ELSE IF r < 0 \/ r >= Rows \/ c < 0 \/ c >= Cols THEN rest
             ELSE IF tile[<<r, c>>] = alive THEN 1 + rest
             ELSE rest

countNeighbors(tile, row, col) ==
    IF row < 0 \/ row >= Rows \/ col < 0 \/ col >= Cols THEN 0
    ELSE countLoop(tile, row, col, 1)

\* evolveCell with overpopulation from 3 neighbors on
evolveCellCrowdedAtThree(tile, row, col) ==
    LET currentState == tile[<<row, col>>]
        liveNeighbors == countNeighbors(tile, row, col)
    IN  IF currentState = alive
        THEN IF liveNeighbors < 2 THEN dead
             ELSE IF liveNeighbors >= 3 THEN dead
             ELSE alive
        ELSE IF liveNeighbors = 3 THEN alive
        ELSE dead

\* evolveCell applies Conway's rules to find new state of cell
evolveCell(tile, row, col) ==
    LET currentState == tile[<<row, col>>]
        liveNeighbors == countNeighbors(tile, row, col)
    IN  IF currentState = alive
        THEN IF liveNeighbors < 2 THEN dead
             ELSE IF liveNeighbors > 3 THEN dead
             ELSE alive
        ELSE IF liveNeighbors = 3 THEN alive
        ELSE dead

\* ---------------------------------------------------------------------- New

\* len(s) - 1 of a 0-indexed slice
LastIndex(cells) == Cardinality(DOMAIN cells) - 1

\* append(t.Cells, c) on the 0-indexed slice
appendCell(cells, c) ==
    [x \in 0 .. (LastIndex(cells) + 1) |->
        IF x \in DOMAIN cells THEN cells[x] ELSE c]

\* t after `t := &Pattern{}`, the allocation of t.mask and make([]Cell, 1)
NewPattern ==
    [rows |-> Rows, cols |-> Cols,
     mask |-> [p \in Pos |-> 0],
     Cells |-> [x \in {0} |-> Cell(0, 0)],
     Border |-> <<>>]

\* assignCell with the id written to t.mask before it is incremented
assignCellStaleId(mask, s, i, j) ==
    IF mask[<<i, j>>] = alive
    THEN [id |-> s.id + 1,
          t  |-> [s.t EXCEPT !.mask[<<i, j>>] = s.id,
                             !.Cells = appendCell(@, Cell(i, j))]]
    ELSE s

\* body of the id-assignment loop for mask position (i, j); s = [id, t]
assignCell(mask, s, i, j) ==
    IF mask[<<i, j>>] = alive
    THEN [id |-> s.id + 1,
          t  |-> [s.t EXCEPT !.mask[<<i, j>>] = s.id + 1,
                             !.Cells = appendCell(@, Cell(i, j))]]
    ELSE s

\* the row-major scan `for i, row := range mask { for j, cell := range row`
RECURSIVE assignIds(_, _, _)
assignIds(mask, s, k) ==
    IF k >= Rows * Cols THEN s
    ELSE assignIds(mask, assignCell(mask, s, k \div Cols, k % Cols), k + 1)

\* borderAppend with the entry overwritten instead of appended to
borderAppendOverwrite(border, id, c) ==
    [k \in DOMAIN border \cup {id} |-> IF k = id THEN <<c>> ELSE border[k]]

\* t.Border[id] = append(t.Border[id], c)
borderAppend(border, id, c) ==
    [k \in DOMAIN border \cup {id} |->
        IF k = id
        THEN (IF id \in DOMAIN border THEN Append(border[id], c) ELSE <<c>>)
        ELSE border[k]]

NoErr == <<>>
NilPat == <<>>

\* ruleStep without the overlap error: a mask-true target is skipped
ruleStepNoOverlapError(mask, s, rule, id) ==
    LET c == s.t.Cells[id]
        row == c.Row + rule.Row
        col == c.Col + rule.Col
    IN  IF (0 <= row /\ row < s.t.rows) /\ (0 <= col /\ col < s.t.cols)
        THEN IF mask[<<row, col>>] = dead /\ countNeighbors(mask, row, col) > 0
             THEN [s EXCEPT !.t.Border = borderAppend(@, id, Cell(row, col))]
             ELSE s
        ELSE s

\* ruleStep without the check that the target is a neighbor of the tile
ruleStepNoNeighborCheck(mask, s, rule, id) ==
    LET c == s.t.Cells[id]
        row == c.Row + rule.Row
        col == c.Col + rule.Col
    IN  IF (0 <= row /\ row < s.t.rows) /\ (0 <= col /\ col < s.t.cols)
        THEN IF mask[<<row, col>>] = dead
             THEN [s EXCEPT !.t.Border = borderAppend(@, id, Cell(row, col))]
             ELSE [s EXCEPT !.err = <<[rule |-> rule, row |-> row,
                                       col |-> col, id |-> id]>>]
        ELSE s

\* body of the inner loop of New for one (rule, id); s = [t, err]
ruleStep(mask, s, rule, id) ==
    LET c == s.t.Cells[id]
        row == c.Row + rule.Row
        col == c.Col + rule.Col
    IN  IF (0 <= row /\ row < s.t.rows) /\ (0 <= col /\ col < s.t.cols)
        THEN IF mask[<<row, col>>] = dead
             THEN IF countNeighbors(mask, row, col) > 0
                  THEN [s EXCEPT !.t.Border = borderAppend(@, id, Cell(row, col))]
                  ELSE s
             ELSE [s EXCEPT !.err = <<[rule |-> rule, row |-> row,
                                       col |-> col, id |-> id]>>]
        ELSE s

\* `for _, rule := range rules { for id, c := range t.Cells {`, leaving at the
\* first error; ri indexes rules (from 1), id indexes t.Cells (from 0)
RECURSIVE applyRules(_, _, _, _, _)
applyRules(mask, rules, s, ri, id) ==
    IF s.err # NoErr THEN s
    ELSE IF ri > Len(rules) THEN s
    ELSE IF id > LastIndex(s.t.Cells) THEN applyRules(mask, rules, s, ri + 1, 0)
    ELSE applyRules(mask, rules, ruleStep(mask, s, rules[ri], id), ri, id + 1)

\* New(mask, rules): (pattern, nil) or (nil, error)
New(mask, rules) ==
    LET s0 == assignIds(mask, [id |-> 0, t |-> NewPattern], 0)
        s1 == applyRules(mask, rules, [t |-> s0.t, err |-> NoErr], 1, 0)
    IN  IF s1.err # NoErr
        THEN [pat |-> NilPat, err |-> s1.err]
        ELSE [pat |-> <<s1.t>>, err |-> NoErr]

\* ------------------------------------------------------------------- Evolve

\* fillEntry with the assignment reversed: the tile cell takes the border value
RECURSIVE fillEntryReversed(_, _, _, _)
fillEntryReversed(tile, tc, v, k) ==
    IF k > Len(v) THEN tile
    ELSE fillEntryReversed(
             [tile EXCEPT ![<<tc.Row, tc.Col>>] = tile[<<v[k].Row, v[k].Col>>]],
             tc, v, k + 1)

\* fillEntry that leaves the loop after the first border cell
fillEntryFirstOnly(tile, tc, v, k) ==
    IF k > Len(v) \/ k > 1 THEN tile
    ELSE [tile EXCEPT ![<<v[k].Row, v[k].Col>>] = tile[<<tc.Row, tc.Col>>]]

\* `for _, bc := range v { tile[bc.Row][bc.Col] = tile[tc.Row][tc.Col] }`
RECURSIVE fillEntry(_, _, _, _)
fillEntry(tile, tc, v, k) ==
    IF k > Len(v) THEN tile
    ELSE fillEntry([tile EXCEPT ![<<v[k].Row, v[k].Col>>] = tile[<<tc.Row, tc.Col>>]],
                   tc, v, k + 1)

\* `for id, v := range t.Border`, the keys visited in the sequence `order`
RECURSIVE fillBorder(_, _, _, _)
fillBorder(t, tile, order, k) ==
    IF k > Len(order) THEN tile
    ELSE fillBorder(t, fillEntry(tile, t.Cells[order[k]], t.Border[order[k]], 1),
                    order, k + 1)

\* evolvedIds of `range t.Cells`, the sentinel included
evolvedIdsFromZero(t) == 0 .. LastIndex(t.Cells)

\* the indices of `t.Cells[1:]`
evolvedIds(t) == 1 .. LastIndex(t.Cells)

\* `for _, c := range t.Cells[1:] { newTile[c.Row][c.Col] = evolveCell(...) }`
RECURSIVE evolveCells(_, _, _, _)
evolveCells(t, tile, newTile, id) ==
    IF id > LastIndex(t.Cells) THEN newTile
    ELSE IF id \notin evolvedIds(t) THEN evolveCells(t, tile, newTile, id + 1)
    ELSE LET c == t.Cells[id]
         IN  evolveCells(t, tile,
                 [newTile EXCEPT ![<<c.Row, c.Col>>] = evolveCell(tile, c.Row, c.Col)],
                 id + 1)

\* Pattern.Evolve(tile, newTile) with the map's keys visited in `order`:
\* both argument grids as the call leaves them
Evolve(t, tile, newTile, order) ==
    LET ext == fillBorder(t, tile, order, 1)
    IN  [tile |-> ext, newTile |-> evolveCells(t, ext, newTile, 0)]

\* Go leaves the iteration order of a map unspecified: any permutation of the
\* keys may be the order of one `range t.Border`
RECURSIVE Perms(_)
Perms(S) ==
    IF S = {} THEN {<<>>}
    ELSE UNION {{<<x>> \o p : p \in Perms(S \ {x})} : x \in S}

mapOrders(border) == Perms(DOMAIN border)

\* ------------------------------------------------------------ inputs

Offsets(rsh, csh) == {[Row |-> r, Col |-> c] : r \in -rsh .. rsh, c \in -csh .. csh}
RuleLists(offs, n) == UNION {[1 .. k -> offs] : k \in 0 .. n}
Live(g) == {p \in Pos : g[p]}

\* inputs of the runs that go on to play
PlayMasks == {m \in Grids : Cardinality(Live(m)) <= MaxTile}
PlayRuleLists == RuleLists(Offsets(MaxShift, MaxShift), MaxRules)

\* inputs of the runs of New alone: every mask of the grid, every offset that
\* can map a grid position to a grid position
AllMasks == Grids
AllRuleLists == RuleLists(Offsets(Rows - 1, Cols - 1), MaxRules + 1)

\* ------------------------------------------------------------ state machine

VARIABLES mask, rules, res, aTile, bTile, pc, j
vars == <<mask, rules, res, aTile, bTile, pc, j>>

InitWith(masks, ruleLists) ==
    /\ mask \in masks
    /\ rules \in ruleLists
    /\ res = [pat |-> NilPat, err |-> NoErr]
    /\ aTile = EmptyGrid
    /\ bTile = EmptyGrid
    /\ pc = "start"
    /\ j = 0

Init == InitWith(PlayMasks, PlayRuleLists)
InitNew == InitWith(AllMasks, AllRuleLists)

\* main: tess, err := pattern.New(mask, translations); on an error main returns
NewStep ==
    /\ pc = "start"
    /\ res' = New(mask, rules)
    /\ pc' = IF res'.err # NoErr THEN "failed" ELSE "built"
    /\ UNCHANGED <<mask, rules, aTile, bTile, j>>

\* play up to the loop: aTile is the caller's grid, bTile is freshly made
PlayStart ==
    /\ pc = "built"
    /\ \E tile \in Grids : aTile' = tile
    /\ bTile' = EmptyGrid
    /\ j' = 2
    /\ pc' = IF j' <= NFrames THEN "evolveA" ELSE "done"
    /\ UNCHANGED <<mask, rules, res>>

\* pat.Evolve(aTile, bTile)
EvolveA ==
    /\ pc = "evolveA"
    /\ \E order \in mapOrders(res.pat[1].Border) :
          LET r == Evolve(res.pat[1], aTile, bTile, order)
          IN  /\ aTile' = r.tile
              /\ bTile' = r.newTile
    /\ pc' = "evolveB"
    /\ UNCHANGED <<mask, rules, res, j>>

\* pat.Evolve(bTile, aTile), then the loop's `j = j+2` and test
EvolveB ==
    /\ pc = "evolveB"
    /\ \E order \in mapOrders(res.pat[1].Border) :
          LET r == Evolve(res.pat[1], bTile, aTile, order)
          IN  /\ bTile' = r.tile
              /\ aTile' = r.newTile
    /\ j' = j + 2
    /\ pc' = IF j' <= NFrames THEN "evolveA" ELSE "done"
    /\ UNCHANGED <<mask, rules, res>>

Next == NewStep \/ PlayStart \/ EvolveA \/ EvolveB
Spec == Init /\ [][Next]_vars

NextNew == NewStep
SpecNew == InitNew /\ [][NextNew]_vars

\* ============================================================== properties

\* number of mask-true positions
N == Cardinality(Live(mask))
\* position of a mask position in the row-major scan
Lin(p) == p[1] * Cols + p[2]
Coord(c) == <<c.Row, c.Col>>
Shift(p, rule) == <<p[1] + rule.Row, p[2] + rule.Col>>
\* the k-th mask-true position of the row-major scan
KthLive(k) ==
    CHOOSE p \in Live(mask) : Cardinality({q \in Live(mask) : Lin(q) < Lin(p)}) = k - 1
Moore(p) ==
    {q \in Pos : q # p /\ q[1] - p[1] \in -1 .. 1 /\ q[2] - p[2] \in -1 .. 1}
\* some rule maps a tile cell onto a mask-true position of the grid
TileOverlap ==
    \E i \in 1 .. Len(rules), p \in Live(mask) :
        Shift(p, rules[i]) \in Pos /\ mask[Shift(p, rules[i])]
Range(seq) == {seq[i] : i \in 1 .. Len(seq)}
Count(seq, x) == Cardinality({i \in 1 .. Len(seq) : seq[i] = x})
SameBag(s1, s2) ==
    /\ Len(s1) = Len(s2)
    /\ \A x \in Range(s1) \cup Range(s2) : Count(s1, x) = Count(s2, x)
\* Border[id], empty for a key the map does not hold
Entry(border, id) == IF id \in DOMAIN border THEN border[id] ELSE <<>>
Returned == pc # "start"
Built == Returned /\ res.err = NoErr
Failed == Returned /\ res.err # NoErr
T == res.pat[1]

\* C3: if some rule maps an in-tile cell onto an in-grid, mask-true position,
\* New returns an error and a nil pattern.
C3_OverlapIsFatal ==
    (Returned /\ TileOverlap) => (res.pat = NilPat /\ res.err # NoErr /\ pc = "failed")

C3_Witness ==
    /\ Failed /\ TileOverlap
    /\ Len(rules) >= 2
    /\ ~(Shift(KthLive(1), rules[1]) \in Pos /\ mask[Shift(KthLive(1), rules[1])])

\* C4: whenever New returns an error, it names a rule of the list, an
\* identifier in 1..N and the coordinate Cells[id]+rule, which is inside the
\* grid and mask-true; so New never fails without an overlap of a tile cell.
C4_ErrorIsTileOverlap ==
    Failed =>
        LET e == res.err[1]
        IN  /\ e.rule \in Range(rules)
            /\ e.id \in 1 .. N
            /\ <<e.row, e.col>> = Shift(KthLive(e.id), e.rule)
            /\ <<e.row, e.col>> \in Pos
            /\ mask[<<e.row, e.col>>]
            /\ TileOverlap

\* C5: after a successful New the Cell List has indices 0..N, index 0 the
\* zero-valued sentinel, Cells[k] the k-th mask-true position in row-major
\* order, and the id grid holds k at Cells[k] and 0 at mask-false positions.
C5_RowMajorIds ==
    Built =>
        /\ DOMAIN T.Cells = 0 .. N
        /\ T.Cells[0] = Cell(0, 0)
        /\ {Coord(T.Cells[k]) : k \in 1 .. N} = Live(mask)
        /\ \A k \in 1 .. N :
              /\ Coord(T.Cells[k]) \in Live(mask)
              /\ Cardinality({q \in Live(mask) : Lin(q) < Lin(Coord(T.Cells[k]))}) = k - 1
              /\ T.mask[Coord(T.Cells[k])] = k
        /\ \A p \in Pos : ~mask[p] => T.mask[p] = 0

C5_Witness ==
    /\ Built /\ N >= 3
    /\ ~mask[<<0, 0>>]
    /\ \E p \in Pos : ~mask[p] /\ Lin(p) > Lin(Coord(T.Cells[1])) /\ Lin(p) < Lin(Coord(T.Cells[N]))

\* the rule lists that are permutations of the list `rules`
RulePermutations(seq) ==
    {[i \in 1 .. Len(seq) |-> seq[pi[i]]] : pi \in Perms(1 .. Len(seq))}

\* C8: New on a permutation of the rule list fails iff New on the list fails,
\* and on success gives the same Cell List and, per identifier, the same
\* border coordinates as an unordered collection.
C8_RuleOrderIrrelevant ==
    Returned =>
        \A perm \in RulePermutations(rules) :
            LET r2 == New(mask, perm)
            IN  /\ (r2.err = NoErr) <=> (res.err = NoErr)
                /\ (r2.pat = NilPat) <=> (res.pat = NilPat)
                /\ Built =>
                      /\ r2.pat[1].Cells = T.Cells
                      /\ DOMAIN r2.pat[1].Border = DOMAIN T.Border
                      /\ \A id \in DOMAIN T.Border :
                            SameBag(r2.pat[1].Border[id], T.Border[id])

C8_Witness ==
    /\ Built /\ Len(rules) = 3
    /\ \E perm \in RulePermutations(rules) :
          \E id \in DOMAIN T.Border :
              /\ id >= 1
              /\ Len(T.Border[id]) >= 2
              /\ New(mask, perm).pat[1].Border[id] # T.Border[id]

\* C9: every coordinate stored in the Border Map is inside the grid, false in
\* the mask and has a mask-true Moore neighbour; every key of the map indexes
\* the Cell List, whose coordinates are inside the grid too.
C9_BorderInBounds ==
    Built =>
        /\ \A id \in DOMAIN T.Border :
              /\ id \in DOMAIN T.Cells
              /\ \A k \in 1 .. Len(T.Border[id]) :
                    LET bc == Coord(T.Border[id][k])
                    IN  /\ bc \in Pos
                        /\ ~mask[bc]
                        /\ \E q \in Moore(bc) : mask[q]
        /\ \A id \in DOMAIN T.Cells : Coord(T.Cells[id]) \in Pos

C9_Witness ==
    /\ Built /\ N >= 1
    /\ \E id \in DOMAIN T.Border : id >= 1 /\ Len(T.Border[id]) >= 2
    /\ \E i \in 1 .. Len(rules), p \in Live(mask) :
          /\ Shift(p, rules[i]) \in Pos
          /\ \A q \in Moore(Shift(p, rules[i])) : ~mask[q]

\* the coordinates Cells[id]+r, one per rule r in list order, that are inside
\* the grid, mask-false and have a mask-true Moore neighbour
QualifiedTargets(id) ==
    LET targets == [i \in 1 .. Len(rules) |-> Shift(Coord(T.Cells[id]), rules[i])]
        Qualifies(p) == p \in Pos /\ ~mask[p] /\ \E q \in Moore(p) : mask[q]
        kept == SelectSeq(targets, Qualifies)
    IN  [i \in 1 .. Len(kept) |-> Cell(kept[i][1], kept[i][2])]

\* C10: the Border Map has entries only for identifiers 1..N, never for the
\* sentinel 0, and the entry of each id in 1..N is the collection of the
\* qualified targets Cells[id]+r.
C10_BorderOnlyForTileIds ==
    Built =>
        /\ DOMAIN T.Border \subseteq 1 .. N
        /\ \A id \in 1 .. N : SameBag(Entry(T.Border, id), QualifiedTargets(id))

\* ------------------------------------------------------ properties of Evolve

\* an Evolve call has returned; Current and NextGrid are the grids it was
\* given as `tile` and `newTile`, as it left them
Evolved == pc = "evolveB" \/ (pc \in {"evolveA", "done"} /\ j > 2)
Current == IF pc = "evolveB" THEN aTile ELSE bTile
NextGrid == IF pc = "evolveB" THEN bTile ELSE aTile
\* every rule of the list has its negation in the list
ClosedUnderNegation ==
    \A i \in 1 .. Len(rules) :
        \E k \in 1 .. Len(rules) :
            rules[k].Row = -rules[i].Row /\ rules[k].Col = -rules[i].Col
\* the identifiers under which the Border Map records coordinate bc
RecordedUnder(bc) == {id \in DOMAIN T.Border : bc \in Range(T.Border[id])}
BorderCoords == UNION {Range(T.Border[id]) : id \in DOMAIN T.Border}

\* C1 as stated: with a rule list closed under negation, after the border
\* extension of every Evolve call of the alternation each coordinate recorded
\* under an identifier id holds in `current` the value of Cells[id].
C1_BorderEqualsOwnCell ==
    (Evolved /\ ClosedUnderNegation) =>
        \A id \in DOMAIN T.Border :
            \A bc \in Range(T.Border[id]) : At(Current, bc) = At(Current, T.Cells[id])

\* C1 amended: with a rule list closed under negation, after the border
\* extension of every Evolve call each recorded coordinate holds the value of
\* Cells[id] for at least one identifier id it is recorded under; hence for
\* its only identifier when it is recorded under one.
C1_BorderEqualsSomeRecordedCell ==
    (Evolved /\ ClosedUnderNegation) =>
        \A bc \in BorderCoords :
            \E id \in RecordedUnder(bc) : At(Current, bc) = At(Current, T.Cells[id])

C1_Witness ==
    /\ Evolved /\ ClosedUnderNegation /\ j > 2
    /\ Len(rules) = 2 /\ rules[1] # rules[2]
    /\ \E bc \in BorderCoords :
          /\ Cardinality(RecordedUnder(bc)) = 1
          /\ At(Current, bc)
    /\ \E bc \in BorderCoords :
          \E id1, id2 \in RecordedUnder(bc) :
              /\ id1 >= 1 /\ id2 >= 1
              /\ At(Current, T.Cells[id1]) # At(Current, T.Cells[id2])

\* live cells of g among the Moore neighbours of p that lie inside the grid
LiveAround(g, p) == Cardinality({q \in Moore(p) : g[q]})

\* C2: after Evolve(current, next), next at every tile cell is Conway's rule
\* applied to the cell and its in-grid live Moore neighbours in `current` as
\* the border extension left it.
C2_ConwayRule ==
    Evolved =>
        \A id \in 1 .. N :
            LET c == Coord(T.Cells[id])
                n == LiveAround(Current, c)
            IN  NextGrid[c] = IF Current[c] THEN n \in {2, 3} ELSE n = 3

C2_Witness ==
    /\ Evolved /\ N = 3
    /\ \E id \in 1 .. N :
          Current[Coord(T.Cells[id])] /\ LiveAround(Current, Coord(T.Cells[id])) > 3
    /\ \E id \in 1 .. N :
          Current[Coord(T.Cells[id])] /\ LiveAround(Current, Coord(T.Cells[id])) = 3
    /\ \E id \in 1 .. N :
          ~Current[Coord(T.Cells[id])] /\ LiveAround(Current, Coord(T.Cells[id])) = 3

\* C6: Evolve is deterministic: on equal grids, two calls give the same
\* `current` and `next` whatever order the Border map's entries are visited in.
C6_EvolveDeterministic ==
    /\ pc = "evolveA" =>
          \A o1, o2 \in mapOrders(T.Border) :
              Evolve(T, aTile, bTile, o1) = Evolve(T, aTile, bTile, o2)
    /\ pc = "evolveB" =>
          \A o1, o2 \in mapOrders(T.Border) :
              Evolve(T, bTile, aTile, o1) = Evolve(T, bTile, aTile, o2)

\* C7: Evolve(current, next) leaves every mask-false position of `next` as it
\* was before the call.
C7_NextFrame ==
    [][/\ pc = "evolveA" => \A p \in Pos : ~mask[p] => bTile'[p] = bTile[p]
       /\ pc = "evolveB" => \A p \in Pos : ~mask[p] => aTile'[p] = aTile[p]]_vars

C7_Witness ==
    /\ Evolved /\ j > 2 /\ N >= 1
    /\ ~mask[<<0, 0>>] /\ NextGrid[<<0, 0>>]
    /\ \E p \in Pos : ~mask[p] /\ p \notin {Coord(bc) : bc \in BorderCoords} /\ NextGrid[p]
    /\ \E p \in Live(mask) : NextGrid[p]

\* the grid positions the Border Map records
BorderPos == {Coord(bc) : bc \in BorderCoords}

\* C11: Evolve(current, next) changes `current` only at coordinates recorded
\* in the Border Map: every mask-true position and every position that is not
\* a recorded border coordinate keeps the value it had before the call.
C11_CurrentFrame ==
    [][/\ pc = "evolveA" =>
             \A p \in Pos : (mask[p] \/ p \notin BorderPos) => aTile'[p] = aTile[p]
       /\ pc = "evolveB" =>
             \A p \in Pos : (mask[p] \/ p \notin BorderPos) => bTile'[p] = bTile[p]]_vars

C11_Witness ==
    /\ Evolved /\ N >= 2
    /\ \E p \in BorderPos : Current[p]
    /\ \E p \in BorderPos : ~Current[p]
    /\ \E p \in Pos : ~mask[p] /\ p \notin BorderPos /\ Current[p]
    /\ \E p \in Live(mask) : Current[p] /\ ~NextGrid[p]

====
